---- MODULE Spec2Model ----
(***************************************************************************)
(* Model of phenofetch: the date-range catalog crawler                     *)
(* (fetch_phenocam_data_for_date_range) and the batched, semaphore-gated   *)
(* fetch engines (async_download_files / async_estimate_sizes) with their  *)
(* per-file operations (download_file / get_file_size).                    *)
(*                                                                         *)
(* Conventions: Python None is the empty tuple <<>> and a present value x  *)
(* is <<x>>; a URL is the record of the three string features the code     *)
(* inspects (directory segment, base name, extension).                     *)
(***************************************************************************)
EXTENDS Integers, Sequences, FiniteSets, TLC

VARIABLES
    engine,       \* "download" (daily_links.py) or "probe" (size_estimate.py)
    file_urls,    \* argument file_urls of the run
    batch_size,   \* argument batch_size
    concurrency,  \* argument concurrency
    pc,           \* position of the engine coroutine
    i,            \* loop variable of "for i, batch in enumerate(batches)"
    tasks,        \* tasks created by download_batch / process_batch
    sem,          \* free permits of the asyncio.Semaphore
    completed,    \* positions of the batch's tasks in order of completion
    stats,        \* the stats dictionary of the run
    folded,       \* per-batch result lists, concatenated as they are folded
    pauses,       \* number of asyncio.sleep(1) calls made by the run
    fs,           \* the output directory: path -> "absent" | "partial" | "complete"
    net,          \* per ref position: requests sent, f.write calls, gate
                  \* entries, failures met by the operation
    variant,      \* crawler copy: "daily_links" or "size_estimate"
    site_code,    \* argument site_code of the calling entry point
    start_date,   \* argument start_date (parsed)
    end_date,     \* argument end_date (parsed)
    file_types,   \* argument file_types
    date_list,    \* get_date_range(start_date, end_date)
    day,          \* number of dates of date_list already processed
    results,      \* the results dictionary of the crawl
    cpc,          \* position of the crawl: "lookup", "aborted", "call", "loop",
                  \* "waiting", "returned", "raised", "interrupted"
    requested,    \* catalog page requests made, in order, with what came back
    cpu_count,    \* what os.cpu_count() returns on the host
    mem_total,    \* psutil.virtual_memory().total of the host, in MiB
    planned,      \* what determine_optimal_concurrency returned
    hpc           \* position of the planner call: "idle", "plan", "planned"

vars == <<engine, file_urls, batch_size, concurrency, pc, i, tasks, sem,
          completed, stats, folded, pauses, fs, net,
          variant, site_code, start_date, end_date, file_types, date_list,
          day, results, cpc, requested,
          cpu_count, mem_total, planned, hpc>>

engineVars == <<engine, file_urls, batch_size, concurrency, pc, i, tasks, sem,
                completed, stats, folded, pauses, fs, net>>

crawlVars == <<variant, site_code, start_date, end_date, file_types,
               date_list, day, results, cpc, requested>>

hostVars == <<cpu_count, mem_total, planned, hpc>>

----------------------------------------------------------------------------
(* Bounds *)

MaxRefs == 2
MaxBatch == 2
MaxConc == 2

----------------------------------------------------------------------------
(* Values *)

None == <<>>
Some(x) == <<x>>
IsNone(v) == v = <<>>
Val(v) == v[1]

\* A function or coroutine that raised instead of returning.
Raised(msg) == [raised |-> msg]

Max(a, b) == IF a >= b THEN a ELSE b
Min(a, b) == IF a <= b THEN a ELSE b

\* URLs the crawler hands to the engines: a thumbnail, a full-resolution
\* image, a metadata file, and "https://phenocam.nau.edu/None".
Urls ==
    { [dir |-> "thumbnails", base |-> <<"a">>, ext |-> "jpg"],
      [dir |-> "archive", base |-> <<"a">>, ext |-> "jpg"],
      [dir |-> "archive", base |-> <<"a">>, ext |-> "meta"],
      [dir |-> "", base |-> <<"None">>, ext |-> ""] }

RECURSIVE SeqsUpTo(_, _)
SeqsUpTo(S, n) ==
    IF n = 0 THEN { <<>> }
    ELSE LET shorter == SeqsUpTo(S, n - 1)
         IN shorter \cup { Append(s, x) : s \in { t \in shorter : Len(t) = n - 1 }, x \in S }

\* f"HTTP {status}"
HttpError(code) == IF code = 404 THEN "HTTP 404" ELSE "HTTP other"

\* HTTP status codes a request can resolve with.
StatusCodes == {200, 404}

\* str(e) of the exception a request or a body read raises: a connection
\* error, or the asyncio.TimeoutError of the ClientTimeout, whose message is
\* empty.
NetErrors == {"Cannot connect to host", ""}

\* Filesystem / body errors after a 200 response.
FsErrors == {"No space left on device"}

\* Content-Length header of a HEAD response: absent, or a string of characters.
Headers == { None, Some(<<>>), Some(<<"7">>) }

----------------------------------------------------------------------------
(* Pure helpers of the source *)

Digit(c) ==
    CASE c = "0" -> 0 [] c = "1" -> 1 [] c = "2" -> 2 [] c = "3" -> 3
      [] c = "4" -> 4 [] c = "5" -> 5 [] c = "6" -> 6 [] c = "7" -> 7
      [] c = "8" -> 8 [] c = "9" -> 9 [] OTHER -> -1

\* int(s) succeeds on a non-empty string of decimal digits.
IntParses(s) == Len(s) > 0 /\ \A k \in 1..Len(s) : Digit(s[k]) >= 0

RECURSIVE IntOf(_)
IntOf(s) ==
    IF Len(s) = 0 THEN 0
    ELSE 10 * IntOf(SubSeq(s, 1, Len(s) - 1)) + Digit(s[Len(s)])

\* range(0, n, step) for the list comprehension that builds the batches;
\* step = 0 raises ValueError and is excluded by the caller.
RECURSIVE Range(_, _, _)
Range(lo, n, step) ==
    IF step > 0
    THEN IF lo >= n THEN <<>> ELSE <<lo>> \o Range(lo + step, n, step)
    ELSE IF lo <= n THEN <<>> ELSE <<lo>> \o Range(lo + step, n, step)

\* Python slice s[lo : hi] with 0 <= lo, clamped to len(s) (0-based lo).
Slice(s, lo, hi) == SubSeq(s, lo + 1, Min(Max(hi, 0), Len(s)))

\* No batching: every ref's operation is launched in one gather.
BatchesAllAtOnce(urls, b) == IF Len(urls) = 0 THEN <<>> ELSE <<urls>>

\* batches = [file_urls[i : i + batch_size] for i in range(0, len(file_urls), batch_size)]
Batches(urls, b) ==
    LET starts == Range(0, Len(urls), b)
    IN [k \in 1..Len(starts) |-> Slice(urls, starts[k], starts[k] + b)]

\* The same comprehension in async_estimate_sizes.
EstimateBatches(urls, b) ==
    LET starts == Range(0, Len(urls), b)
    IN [k \in 1..Len(starts) |-> Slice(urls, starts[k], starts[k] + b)]

\* The batches of the engine that runs.
EngineBatches(eng, urls, b) ==
    IF eng = "download" THEN Batches(urls, b) ELSE EstimateBatches(urls, b)

\* Position in file_urls (1-based) of position k of batch number j (0-based).
RefIndex(j, k) == j * batch_size + k

\* format_size: None -> "Unknown"; otherwise the value scaled to a unit.
\* The integer part of the scaled value is kept (the source prints two decimals).
RECURSIVE ScaleSize(_, _)
ScaleSize(n, u) ==
    IF n >= 1024 /\ u < 4 THEN ScaleSize(n \div 1024, u + 1) ELSE <<n, u>>

format_size(size) ==
    IF IsNone(size) THEN <<"Unknown">> ELSE ScaleSize(Val(size), 0)

----------------------------------------------------------------------------
(* URL classification *)

\* download_file: subdir is bound only by one of the three branches.
DownloadSubdir(url) ==
    IF url.dir = "thumbnails" THEN Some("thumbnails")
    ELSE IF url.dir = "archive" /\ url.ext = "jpg" THEN Some("full_res")
    ELSE IF url.dir = "archive" /\ url.ext = "meta" THEN Some("meta")
    ELSE None

\* get_file_size: file_type starts as "unknown".
ProbeFileType(url) ==
    IF url.dir = "thumbnails" THEN "thumbnail"
    ELSE IF url.dir = "archive" /\ url.ext = "jpg" THEN "full_res"
    ELSE IF url.dir = "archive" /\ url.ext = "meta" THEN "meta"
    ELSE "unknown"

\* filepath = os.path.join(subdir, os.path.basename(url))
FilePath(url) == <<Val(DownloadSubdir(url)), url.base, url.ext>>

\* An existence test against a path that is never written.
os_path_exists_never(f, path) == FALSE

\* os.path.exists(filepath)
os_path_exists(f, path) == f[path] # "absent"

\* A probe that sends the HEAD request for every kind.
ProbeSkipsNothing(url) == FALSE

\* get_file_size returns the placeholder for metadata before the gate.
ProbeSkips(url) == ProbeFileType(url) = "meta"

Paths == { FilePath(u) : u \in { v \in Urls : ~IsNone(DownloadSubdir(v)) } }

----------------------------------------------------------------------------
(* Outcome records *)

DownloadOk(url, status) ==
    [success |-> TRUE, url |-> url, file |-> FilePath(url), status |-> status]

DownloadFail(url, msg) ==
    [success |-> FALSE, url |-> url, error |-> msg]

ProbeOk(url, size) ==
    [success |-> TRUE, url |-> url, size |-> size,
     formatted_size |-> format_size(size), file_type |-> ProbeFileType(url)]

ProbeMeta(url) ==
    [success |-> TRUE, url |-> url, size |-> Some(0),
     formatted_size |-> <<"N/A for metadata">>, file_type |-> "meta"]

ProbeFail(url, msg) ==
    [success |-> FALSE, url |-> url, error |-> msg,
     file_type |-> ProbeFileType(url), size |-> None]

\* "except Exception as e: return {...}" of download_file
download_file_reraise(url, e) == Raised(e)

download_file_except(url, e) == DownloadFail(url, e)

\* "except Exception as e: return {...}" of get_file_size
get_file_size_except(url, e) == ProbeFail(url, e)

----------------------------------------------------------------------------
(* The semaphore *)

\* A gate that admits one more operation than asked for.
NewSemaphoreOffByOne(c) == c + 1

\* semaphore = asyncio.Semaphore(concurrency)
NewSemaphore(c) == c

\* semaphore = asyncio.Semaphore(concurrency) in async_estimate_sizes
EstimateSemaphore(c) == c

\* The semaphore of the engine that runs.
EngineSemaphore(eng, c) ==
    IF eng = "download" THEN NewSemaphore(c) ELSE EstimateSemaphore(c)

\* asyncio.Semaphore(value) raises ValueError for value < 0.
SemaphoreRaises(c) == c < 0

\* Tasks inside "async with semaphore".
Gated(ts) == { k \in 1..Len(ts) : ts[k].pc \in {"request", "write"} }

----------------------------------------------------------------------------
(* Statistics *)

DownloadStats0(urls) ==
    [total |-> Len(urls), successful |-> 0, failed |-> 0,
     already_existed |-> 0, errors |-> <<>>]

ProbeStats0(urls) ==
    [total |-> [count |-> Len(urls), size |-> 0],
     full_res |-> [count |-> 0, size |-> 0],
     thumbnail |-> [count |-> 0, size |-> 0],
     meta |-> [count |-> 0, size |-> 0],
     successful |-> 0, failed |-> 0, errors |-> <<>>, files |-> <<>>]

\* A fold that counts an existing file as a fresh download as well.
DownloadFold1DoubleCount(st, r) ==
    IF r.success
    THEN IF "status" \in DOMAIN r /\ r.status = "already exists"
         THEN [st EXCEPT !.already_existed = @ + 1, !.successful = @ + 1]
         ELSE [st EXCEPT !.successful = @ + 1]
    ELSE [st EXCEPT !.failed = @ + 1, !.errors = Append(@, r)]

\* Body of "for result in results" in async_download_files.
DownloadFold1(st, r) ==
    IF r.success
    THEN IF "status" \in DOMAIN r /\ r.status = "already exists"
         THEN [st EXCEPT !.already_existed = @ + 1]
         ELSE [st EXCEPT !.successful = @ + 1]
    ELSE [st EXCEPT !.failed = @ + 1, !.errors = Append(@, r)]

\* result["success"] and result["size"] is not None
ProbeCounted(r) == r.success /\ ~IsNone(r.size)

\* Body of "for result in results" in async_estimate_sizes.
ProbeFold1(st, r) ==
    LET st1 == [st EXCEPT !.files = Append(@, r)]
    IN IF ProbeCounted(r)
       THEN LET st2 == [st1 EXCEPT !.successful = @ + 1,
                                   !.total.size = @ + Val(r.size)]
                ft == r.file_type
            IN IF ft \in {"full_res", "thumbnail", "meta"}
               THEN [st2 EXCEPT ![ft].count = @ + 1, ![ft].size = @ + Val(r.size)]
               ELSE st2
       ELSE [st1 EXCEPT !.failed = @ + 1, !.errors = Append(@, r)]

RECURSIVE FoldResults(_, _, _)
FoldResults(eng, st, rs) ==
    IF rs = <<>> THEN st
    ELSE FoldResults(eng,
                     IF eng = "download" THEN DownloadFold1(st, Head(rs))
                                         ELSE ProbeFold1(st, Head(rs)),
                     Tail(rs))

Stats0(eng, urls) ==
    IF eng = "download" THEN DownloadStats0(urls) ELSE ProbeStats0(urls)

----------------------------------------------------------------------------
(* Tasks of one batch *)

NewTask(url) == [url |-> url, pc |-> "created", result |-> None]

\* tasks = [asyncio.create_task(op(url)) for url in urls]
CreateTasks(urls) == [k \in 1..Len(urls) |-> NewTask(urls[k])]

\* asyncio.gather resolves when every task has resolved.
BatchResolved(ts) == \A k \in 1..Len(ts) : ts[k].pc = "done"

\* asyncio.gather (return_exceptions=False) re-raises a task's exception in
\* the engine coroutine, which has no handler around the batch.
GatherRaises(ts) ==
    \E k \in 1..Len(ts) : ts[k].pc = "done" /\ "raised" \in DOMAIN Val(ts[k].result)

\* The batch's results in the order the tasks resolved.
GatherAsCompleted(ts, done) == [k \in 1..Len(done) |-> Val(ts[done[k]].result)]

RECURSIVE InTaskOrder(_, _)
InTaskOrder(ts, k) ==
    IF k > Len(ts) THEN <<>>
    ELSE (IF ts[k].pc = "done" THEN <<Val(ts[k].result)>> ELSE <<>>)
         \o InTaskOrder(ts, k + 1)

\* results = await asyncio.gather(*tasks): one result per task, in the order
\* the tasks were passed, whatever the order of completion.
Gather(ts, done) == InTaskOrder(ts, 1)

Finish(ts, k, r) == [ts EXCEPT ![k].pc = "done", ![k].result = Some(r)]

----------------------------------------------------------------------------
(* Dates *)

MaxSpan == 1
MaxEntries == 1

IsLeap(y) == (y % 4 = 0 /\ y % 100 # 0) \/ y % 400 = 0

DaysInMonth(y, m) ==
    IF m = 2 THEN (IF IsLeap(y) THEN 29 ELSE 28)
    ELSE IF m \in {4, 6, 9, 11} THEN 30 ELSE 31

ValidDate(dt) ==
    /\ dt.m \in 1..12
    /\ dt.d \in 1..DaysInMonth(dt.y, dt.m)

\* A successor that takes every February to have 28 days.
NextDayNoLeap(dt) ==
    IF dt.m = 2 /\ dt.d >= 28 THEN [y |-> dt.y, m |-> 3, d |-> 1]
    ELSE IF dt.d < DaysInMonth(dt.y, dt.m) THEN [dt EXCEPT !.d = @ + 1]
    ELSE IF dt.m < 12 THEN [y |-> dt.y, m |-> dt.m + 1, d |-> 1]
    ELSE [y |-> dt.y + 1, m |-> 1, d |-> 1]

\* current_date += timedelta(days=1)
NextDay(dt) ==
    IF dt.d < DaysInMonth(dt.y, dt.m) THEN [dt EXCEPT !.d = @ + 1]
    ELSE IF dt.m < 12 THEN [y |-> dt.y, m |-> dt.m + 1, d |-> 1]
    ELSE [y |-> dt.y + 1, m |-> 1, d |-> 1]

\* datetime comparison a <= b
DateLE(a, b) ==
    \/ a.y < b.y
    \/ a.y = b.y /\ a.m < b.m
    \/ a.y = b.y /\ a.m = b.m /\ a.d <= b.d

\* Number of the day in the proleptic Gregorian calendar (days from civil).
Ordinal(dt) ==
    LET yy == IF dt.m <= 2 THEN dt.y - 1 ELSE dt.y
        era == yy \div 400
        yoe == yy - era * 400
        mp == IF dt.m > 2 THEN dt.m - 3 ELSE dt.m + 9
        doy == (153 * mp + 2) \div 5 + dt.d - 1
        doe == yoe * 365 + yoe \div 4 - yoe \div 100 + doy
    IN era * 146097 + doe

\* Decimal digits of n, zero-padded to width w.
RECURSIVE Pad(_, _)
Pad(n, w) == IF w = 0 THEN <<>> ELSE Append(Pad(n \div 10, w - 1), n % 10)

\* current_date.strftime("%Y/%m/%d"), kept as its three "/"-separated fields.
strftime(dt) == <<Pad(dt.y, 4), Pad(dt.m, 2), Pad(dt.d, 2)>>

\* A date list that stops one day short of end_date.
RECURSIVE get_date_range_exclusive(_, _)
get_date_range_exclusive(current, last) ==
    IF DateLE(current, last) /\ current # last
    THEN <<strftime(current)>> \o get_date_range_exclusive(NextDay(current), last)
    ELSE <<>>

\* get_date_range: "while current_date <= end_date: append; current_date += 1 day"
RECURSIVE get_date_range(_, _)
get_date_range(current, last) ==
    IF DateLE(current, last)
    THEN <<strftime(current)>> \o get_date_range(NextDay(current), last)
    ELSE <<>>

\* The calendar date with the given day number (civil from days).
DateOf(n) ==
    LET era == n \div 146097
        doe == n - era * 146097
        yoe == (doe - doe \div 1460 + doe \div 36524 - doe \div 146096) \div 365
        doy == doe - (365 * yoe + yoe \div 4 - yoe \div 100)
        mp == (5 * doy + 2) \div 153
        dd == doy - (153 * mp + 2) \div 5 + 1
        mm == IF mp < 10 THEN mp + 3 ELSE mp - 9
    IN [y |-> yoe + era * 400 + (IF mm <= 2 THEN 1 ELSE 0), m |-> mm, d |-> dd]

\* Start dates next to a year end, a leap day and a non-leap February end.
StartDates ==
    { [y |-> 2023, m |-> 12, d |-> 31],
      [y |-> 2024, m |-> 2, d |-> 28],
      [y |-> 2023, m |-> 2, d |-> 28] }

----------------------------------------------------------------------------
(* Catalog pages and the page parser *)

NoneUrl == [dir |-> "", base |-> <<"None">>, ext |-> ""]

\* Links of the image entry number k of the page of day ds, as the server
\* writes them.
ImageHref(ds, k) == [dir |-> "archive", base |-> Append(ds, k), ext |-> "jpg"]
ThumbSrc(ds, k) == [dir |-> "thumbnails", base |-> Append(ds, k), ext |-> "jpg"]
MetaHref(ds, k) == [dir |-> "archive", base |-> Append(ds, k), ext |-> "meta"]

\* Markup of one image-entry div: its <a href> elements in document order and
\* its <img src>, if any.
EntryShapes == {"full", "nothumb", "metaonly"}

EntryMarkup(shape, ds, k) ==
    CASE shape = "full" ->
           [anchors |-> <<ImageHref(ds, k), MetaHref(ds, k)>>, img |-> Some(ThumbSrc(ds, k))]
      [] shape = "nothumb" ->
           [anchors |-> <<ImageHref(ds, k), MetaHref(ds, k)>>, img |-> None]
      [] shape = "metaonly" ->
           [anchors |-> <<MetaHref(ds, k)>>, img |-> Some(ThumbSrc(ds, k))]

\* A page: the site-info container may be missing; the "Number of Images:"
\* text after the colon is a string of characters; then the entry divs.
PageOf(ds, shapes) ==
    [siteinfo |-> TRUE, count |-> <<"2">>,
     entries |-> [k \in 1..Len(shapes) |-> EntryMarkup(shapes[k], ds, k)]]

NoInfoPage == [siteinfo |-> FALSE, count |-> <<>>, entries |-> <<>>]

BadCountPage == [siteinfo |-> TRUE, count |-> <<"x">>, entries |-> <<>>]

Pages(ds) ==
    {NoInfoPage, BadCountPage}
        \cup { PageOf(ds, sh) : sh \in SeqsUpTo(EntryShapes, MaxEntries) }

\* img_div.find("a")["href"] if img_div.find("a") else None
FirstAnchor(entry) ==
    IF Len(entry.anchors) > 0 THEN Some(entry.anchors[1]) ELSE None

\* img_div.find("a", href=re.compile(r"\.meta$"))
MetaAnchor(entry) ==
    LET hits == SelectSeq(entry.anchors, LAMBDA h : h.ext = "meta")
    IN IF Len(hits) > 0 THEN Some(hits[1]) ELSE None

\* f"https://phenocam.nau.edu/{link}": daily_links.py formats the link
\* unconditionally, size_estimate.py only "if link else None".
LinkUrl(v, link) ==
    IF v = "daily_links"
    THEN (IF IsNone(link) THEN Some(NoneUrl) ELSE link)
    ELSE link

\* image_info of one entry (time and timezone are not modelled).
ImageInfo(v, entry) ==
    [image_url |-> LinkUrl(v, FirstAnchor(entry)),
     thumbnail_url |-> LinkUrl(v, entry.img),
     metadata_url |-> LinkUrl(v, MetaAnchor(entry))]

\* convert_phenocam_daily_to_json: None without the site-info container,
\* ValueError from int(img_count), otherwise the catalog.
convert_phenocam_daily_to_json(v, page) ==
    IF ~page.siteinfo THEN [kind |-> "none"]
    ELSE IF Len(page.count) > 0 /\ ~IntParses(page.count)
         THEN [kind |-> "raise", error |-> "invalid literal for int() with base 10"]
    ELSE [kind |-> "ok",
          data |-> [total_images |-> IntOf(page.count),
                    images |-> [k \in 1..Len(page.entries) |->
                                    ImageInfo(v, page.entries[k])]]]

----------------------------------------------------------------------------
(* Site lookup *)

\* site_all()["data"]["sites"]: the registry of sites, a table local to the
\* package that is read without network access.
site_all ==
    << [siteCode |-> "ABBY", domainCode |-> "D16"],
       [siteCode |-> "BART", domainCode |-> "D01"] >>

SiteCodes == {"ABBY", "ZZZZ"}

\* A lookup that answers with the code it was given when no site matches.
get_site_data_unchecked(code) ==
    LET hits == SelectSeq(site_all, LAMBDA site : site.siteCode = code)
    IN IF Len(hits) = 0 THEN Some(<<code, "">>)
       ELSE Some(<<code, hits[1].domainCode>>)

\* get_site_data: the first matching site, None when there is none.
get_site_data(code) ==
    LET hits == SelectSeq(site_all, LAMBDA site : site.siteCode = code)
    IN IF Len(hits) = 0 THEN None
       ELSE Some(<<code, hits[1].domainCode>>)

----------------------------------------------------------------------------
(* The crawler: fetch_phenocam_data_for_date_range *)

ValidTypes == {"image", "thumbnail", "meta"}

InList(x, l) == \E k \in 1..Len(l) : l[k] = x

\* A validation that looks at the first element only.
InvalidFileTypesFirstOnly(ft) == Len(ft) > 0 /\ ft[1] \notin ValidTypes

\* "for file_type in file_types: if file_type not in valid_types: raise ValueError"
InvalidFileTypes(ft) == \E k \in 1..Len(ft) : ft[k] \notin ValidTypes

FileTypeLists ==
    { <<"image", "thumbnail", "meta">>, <<"image">>, <<"meta">>, <<>>,
      <<"video">>, <<"image", "video">> }

Summary0(dates) ==
    [total_days |-> Len(dates), days_with_data |-> 0, total_images |-> 0,
     total_thumbnails |-> 0, total_metadata_files |-> 0, file_urls |-> <<>>]

EmptyDict == [k \in {} |-> None]

\* d[key] = value
DictSet(d, key, value) ==
    [k \in DOMAIN d \cup {key} |-> IF k = key THEN value ELSE d[k]]

ErrorRecord(msg) == [error |-> msg]

\* Keys of the filtered image present for the requested kinds.
IncludedKeys(ft, img) ==
    { f \in {"image_url", "thumbnail_url", "metadata_url"} :
        /\ ~IsNone(img[f])
        /\ InList(CASE f = "image_url" -> "image"
                    [] f = "thumbnail_url" -> "thumbnail"
                    [] f = "metadata_url" -> "meta", ft) }

\* The loop body with the thumbnail branch ahead of the image branch.
ImageUrlsThumbFirst(ft, img) ==
    LET inc == IncludedKeys(ft, img)
    IN (IF "thumbnail_url" \in inc THEN <<Val(img.thumbnail_url)>> ELSE <<>>)
       \o (IF "image_url" \in inc THEN <<Val(img.image_url)>> ELSE <<>>)
       \o (IF "metadata_url" \in inc THEN <<Val(img.metadata_url)>> ELSE <<>>)

\* One iteration of "for img in phenocam_data['images']": the URLs appended
\* to file_urls, in the order image, thumbnail, metadata.
ImageUrls(ft, img) ==
    LET inc == IncludedKeys(ft, img)
    IN (IF "image_url" \in inc THEN <<Val(img.image_url)>> ELSE <<>>)
       \o (IF "thumbnail_url" \in inc THEN <<Val(img.thumbnail_url)>> ELSE <<>>)
       \o (IF "metadata_url" \in inc THEN <<Val(img.metadata_url)>> ELSE <<>>)

FilteredImage(ft, img) == [f \in IncludedKeys(ft, img) |-> Val(img[f])]

CountKey(ft, imgs, f) ==
    Cardinality({ k \in 1..Len(imgs) : f \in IncludedKeys(ft, imgs[k]) })

RECURSIVE AllImageUrls(_, _)
AllImageUrls(ft, imgs) ==
    IF imgs = <<>> THEN <<>>
    ELSE ImageUrls(ft, Head(imgs)) \o AllImageUrls(ft, Tail(imgs))

\* A success branch that appends thumbnail URLs without counting them.
StoreDayNoThumbCount(res, ft, ds, data) ==
    [res EXCEPT
        !.data_by_date = DictSet(@, ds,
            [data EXCEPT !.images =
                [k \in 1..Len(data.images) |-> FilteredImage(ft, data.images[k])]]),
        !.summary.file_urls = @ \o AllImageUrls(ft, data.images),
        !.summary.total_images = @ + CountKey(ft, data.images, "image_url"),
        !.summary.total_metadata_files = @ + CountKey(ft, data.images, "metadata_url"),
        !.summary.days_with_data = @ + 1]

\* The success branch of one day: filter the images, store the catalog,
\* update the summary.
StoreDay(res, ft, ds, data) ==
    [res EXCEPT
        !.data_by_date = DictSet(@, ds,
            [data EXCEPT !.images =
                [k \in 1..Len(data.images) |-> FilteredImage(ft, data.images[k])]]),
        !.summary.file_urls = @ \o AllImageUrls(ft, data.images),
        !.summary.total_images = @ + CountKey(ft, data.images, "image_url"),
        !.summary.total_thumbnails = @ + CountKey(ft, data.images, "thumbnail_url"),
        !.summary.total_metadata_files = @ + CountKey(ft, data.images, "metadata_url"),
        !.summary.days_with_data = @ + 1]

\* results["data_by_date"][date_str] = {"error": msg}, then "continue"
StoreError(res, ds, msg) ==
    [res EXCEPT !.data_by_date = DictSet(@, ds, ErrorRecord(msg))]

\* An exception of one day that leaves the function.
crawl_reraise(res, ds, msg) == Raised(msg)

\* "except Exception as e: results['data_by_date'][date_str] = {'error': str(e)}"
crawl_except(res, ds, msg) == StoreError(res, ds, msg)

\* What one catalog page request resolves to.
DayResponses(ds) ==
    { [kind |-> "exception", error |-> "Connection aborted"] }
        \cup { [kind |-> "http", status |-> 404] }
        \cup { [kind |-> "http", status |-> 200, page |-> p] : p \in Pages(ds) }

\* The entry divs of the page a request came back with, for the request log.
ResponseEntries(resp) ==
    IF resp.kind = "http" /\ resp.status = 200 THEN resp.page.entries ELSE <<>>

\* What happened to the request of one day, for the request log.
ResponseClass(v, resp) ==
    IF resp.kind = "exception" THEN "exception"
    ELSE IF resp.status # 200 THEN "status"
    ELSE LET parsed == convert_phenocam_daily_to_json(v, resp.page)
         IN IF parsed.kind = "raise" THEN "parse_error"
            ELSE IF parsed.kind = "none" THEN "no_container"
            ELSE IF Len(parsed.data.images) = 0 THEN "no_images"
            ELSE "ok"

\* A "no data" test that looks at the parser's None only.
NoDataNullOnly(parsed) == parsed.kind = "none"

\* "if not phenocam_data or not phenocam_data.get('images')"
NoData(parsed) == parsed.kind = "none" \/ Len(parsed.data.images) = 0

\* Body of the loop for one date string.
ProcessDay(res, v, ft, ds, resp) ==
    IF resp.kind = "exception" THEN crawl_except(res, ds, resp.error)
    ELSE IF resp.status # 200 THEN StoreError(res, ds, HttpError(resp.status))
    ELSE LET parsed == convert_phenocam_daily_to_json(v, resp.page)
         IN IF parsed.kind = "raise" THEN crawl_except(res, ds, parsed.error)
            ELSE IF NoData(parsed) THEN StoreError(res, ds, "No data found")
            ELSE StoreDay(res, ft, ds, parsed.data)

\* No fetch run is in progress.
EngineIdle ==
    /\ engine = "none"
    /\ file_urls = <<>>
    /\ batch_size = 0
    /\ concurrency = 0
    /\ pc = "idle"
    /\ i = 0
    /\ tasks = <<>>
    /\ sem = 0
    /\ completed = <<>>
    /\ stats = None
    /\ folded = <<>>
    /\ pauses = 0
    /\ fs = None
    /\ net = <<>>

\* No planner call is in progress.
HostIdle ==
    /\ cpu_count = None
    /\ mem_total = None
    /\ planned = None
    /\ hpc = "idle"

CrawlInit ==
    /\ EngineIdle
    /\ HostIdle
    /\ variant \in {"daily_links", "size_estimate"}
    /\ site_code \in SiteCodes
    /\ start_date \in StartDates
    /\ end_date \in { DateOf(Ordinal(start_date) + n) : n \in -1..MaxSpan }
    /\ file_types \in FileTypeLists
    /\ date_list = <<>>
    /\ day = 0
    /\ results = None
    /\ cpc = "lookup"
    /\ requested = <<>>

\* fetch_download / fetch_size_estimate / main: "site_data =
\* get_site_data(site_code); if site_data is None: return None"
LookupSite ==
    /\ cpc = "lookup"
    /\ cpc' = IF IsNone(get_site_data(site_code)) THEN "aborted" ELSE "call"
    /\ UNCHANGED <<variant, site_code, start_date, end_date, file_types,
                   date_list, day, results, requested>>
    /\ UNCHANGED <<engineVars, hostVars>>

\* Validation of file_types, get_date_range, and the initial results.
CrawlStart ==
    /\ cpc = "call"
    /\ IF InvalidFileTypes(file_types)
       THEN /\ cpc' = "raised"
            /\ UNCHANGED <<date_list, results>>
       ELSE LET dates == get_date_range(start_date, end_date)
            IN /\ date_list' = dates
               /\ results' = [data_by_date |-> EmptyDict,
                              summary |-> Summary0(dates)]
               /\ cpc' = IF Len(dates) = 0 THEN "returned" ELSE "loop"
    /\ UNCHANGED <<variant, site_code, start_date, end_date, file_types, day,
                   requested>>
    /\ UNCHANGED <<engineVars, hostVars>>

\* A loop that walks date_list from its end.
LoopDateReversed(dates, done) == dates[Len(dates) - done]

\* "for date_str in date_list": the date of the iteration after done dates.
LoopDate(dates, done) == dates[done + 1]

\* "response = requests.get(url, headers=headers)" is called: the crawl
\* blocks until the page request resolves.
CrawlRequest ==
    /\ cpc = "loop"
    /\ cpc' = "waiting"
    /\ UNCHANGED <<variant, site_code, start_date, end_date, file_types,
                   date_list, day, results, requested>>
    /\ UNCHANGED <<engineVars, hostVars>>

\* The rest of the iteration of "for date_str in date_list": the request
\* resolves, the parser, the bookkeeping; after the last date the function
\* returns.
CrawlDay ==
    /\ cpc = "waiting"
    /\ LET ds == LoopDate(date_list, day)
       IN \E resp \in DayResponses(ds) :
            /\ requested' = Append(requested,
                    [date |-> ds, outcome |-> ResponseClass(variant, resp),
                     entries |-> ResponseEntries(resp)])
            /\ results' = ProcessDay(results, variant, file_types, ds, resp)
    /\ day' = day + 1
    /\ cpc' = IF "raised" \in DOMAIN results' THEN "raised"
              ELSE IF day + 1 = Len(date_list) THEN "returned" ELSE "loop"
    /\ UNCHANGED <<variant, site_code, start_date, end_date, file_types,
                   date_list>>
    /\ UNCHANGED <<engineVars, hostVars>>

\* KeyboardInterrupt while a page request is under way: it is not an
\* Exception, so the handler of the loop body does not catch it and it leaves
\* fetch_phenocam_data_for_date_range, whose results dictionary is dropped.
CrawlInterrupt ==
    /\ cpc \in {"loop", "waiting"}
    /\ cpc' = "interrupted"
    /\ UNCHANGED <<variant, site_code, start_date, end_date, file_types,
                   date_list, day, results, requested>>
    /\ UNCHANGED <<engineVars, hostVars>>

\* What the call of fetch_phenocam_data_for_date_range hands to its caller.
CrawlReturn == IF cpc = "returned" THEN Some(results) ELSE None

CrawlNext ==
    LookupSite \/ CrawlStart \/ CrawlRequest \/ CrawlDay \/ CrawlInterrupt

CrawlSpec == CrawlInit /\ [][CrawlNext]_vars

----------------------------------------------------------------------------
(* The fetch engines: async_download_files / async_estimate_sizes *)

\* No crawl is in progress.
CrawlIdle ==
    /\ variant = "none"
    /\ site_code = ""
    /\ start_date = None
    /\ end_date = None
    /\ file_types = <<>>
    /\ date_list = <<>>
    /\ day = 0
    /\ results = None
    /\ cpc = "idle"
    /\ requested = <<>>

NoTraffic == [requests |-> 0, writes |-> 0, gate |-> 0, faults |-> 0]

Init ==
    /\ engine \in {"download", "probe"}
    /\ file_urls \in SeqsUpTo(Urls, MaxRefs)
    /\ batch_size \in 1..MaxBatch
    /\ concurrency \in 1..MaxConc
    /\ pc = "init"
    /\ i = 0
    /\ tasks = <<>>
    /\ sem = 0
    /\ completed = <<>>
    /\ stats = Stats0(engine, file_urls)
    /\ folded = <<>>
    /\ pauses = 0
    /\ fs = [p \in Paths |-> "absent"]
    /\ net = [k \in 1..Len(file_urls) |-> NoTraffic]
    /\ CrawlIdle
    /\ HostIdle

\* A pause after every batch, the last one included.
PauseAfterEvery(idx, nbatches) == idx <= nbatches - 1

\* "if i < len(batches) - 1: await asyncio.sleep(1)"
PauseAfter(idx, nbatches) == idx < nbatches - 1

\* The size-probe engine pausing after its last batch as well.
EstimatePauseAfterEvery(idx, nbatches) == idx <= nbatches - 1

\* "if i < len(batches) - 1: await asyncio.sleep(1)" in async_estimate_sizes
EstimatePauseAfter(idx, nbatches) == idx < nbatches - 1

\* The pause test of the engine that runs.
EnginePauseAfter(eng, idx, nbatches) ==
    IF eng = "download" THEN PauseAfter(idx, nbatches)
    ELSE EstimatePauseAfter(idx, nbatches)

\* Entry of the engine coroutine up to the first "await download_batch(...)":
\* semaphore, batches, stats, then the tasks of batch 0.
StartRun ==
    /\ pc = "init"
    /\ IF SemaphoreRaises(concurrency) \/ batch_size = 0
       THEN /\ pc' = "error"
            /\ UNCHANGED <<sem, stats, tasks, i>>
       ELSE LET batches == EngineBatches(engine, file_urls, batch_size)
            IN /\ sem' = EngineSemaphore(engine, concurrency)
               /\ stats' = Stats0(engine, file_urls)
               /\ i' = 0
               /\ IF Len(batches) = 0
                  THEN pc' = "done" /\ tasks' = <<>>
                  ELSE pc' = "gather" /\ tasks' = CreateTasks(batches[1])
    /\ UNCHANGED <<engine, file_urls, batch_size, concurrency, completed,
                   folded, pauses, fs, net>>
    /\ UNCHANGED <<crawlVars, hostVars>>

\* Instrumentation of the operation at position k of the current batch.
Sent(k) == [net EXCEPT ![RefIndex(i, k)].requests = @ + 1,
                       ![RefIndex(i, k)].gate = @ + 1]
Faulted(n, k) == [n EXCEPT ![RefIndex(i, k)].faults = @ + 1]
Wrote(n, k) == [n EXCEPT ![RefIndex(i, k)].writes = @ + 1]

\* "async with semaphore:" entered and the request sent.
EnterGate(k) ==
    /\ sem > 0
    /\ sem' = sem - 1
    /\ tasks' = [tasks EXCEPT ![k].pc = "request"]
    /\ net' = Sent(k)
    /\ UNCHANGED completed

\* The task parks on the semaphore.
WaitGate(k) ==
    /\ sem = 0
    /\ tasks' = [tasks EXCEPT ![k].pc = "acquire"]
    /\ UNCHANGED <<sem, net, completed>>

\* The task resolves with result r.
Resolve(k, r) ==
    /\ tasks' = Finish(tasks, k, r)
    /\ completed' = Append(completed, k)

\* A gate that is only released by an operation that succeeded.
ResolveGatedLeakOnFailure(k, r) ==
    /\ Resolve(k, r)
    /\ sem' = IF r.success THEN sem + 1 ELSE sem

\* The task resolves with result r and leaves "async with semaphore".
ResolveGated(k, r) ==
    /\ Resolve(k, r)
    /\ sem' = sem + 1

\* download_file from its first line to its first suspension.
download_file_start(k) ==
    LET url == tasks[k].url
    IN IF IsNone(DownloadSubdir(url))
       THEN /\ Resolve(k, download_file_except(url,
                     "local variable 'subdir' referenced before assignment"))
            /\ net' = Faulted(net, k)
            /\ UNCHANGED sem
       ELSE IF os_path_exists(fs, FilePath(url))
       THEN /\ Resolve(k, DownloadOk(url, "already exists"))
            /\ UNCHANGED <<sem, net>>
       ELSE EnterGate(k) \/ WaitGate(k)

\* get_file_size from its first line to its first suspension.
get_file_size_start(k) ==
    LET url == tasks[k].url
    IN IF ProbeSkips(url)
       THEN /\ Resolve(k, ProbeMeta(url))
            /\ UNCHANGED <<sem, net>>
       ELSE EnterGate(k) \/ WaitGate(k)

TaskStart(k) ==
    /\ pc = "gather"
    /\ tasks[k].pc = "created"
    /\ IF engine = "download" THEN download_file_start(k) ELSE get_file_size_start(k)
    /\ UNCHANGED <<engine, file_urls, batch_size, concurrency, pc, i, stats,
                   folded, pauses, fs>>
    /\ UNCHANGED <<crawlVars, hostVars>>

\* A parked task is woken with a free permit.
TaskAcquire(k) ==
    /\ pc = "gather"
    /\ tasks[k].pc = "acquire"
    /\ EnterGate(k)
    /\ UNCHANGED <<engine, file_urls, batch_size, concurrency, pc, i, stats,
                   folded, pauses, fs>>
    /\ UNCHANGED <<crawlVars, hostVars>>

\* download_file after "session.get(url)" resolved.
download_file_response(k) ==
    LET url == tasks[k].url
    IN \/ \E e \in NetErrors :       \* connection error or timeout
            /\ ResolveGated(k, download_file_except(url, e))
            /\ net' = Faulted(net, k)
            /\ UNCHANGED fs
       \/ \E code \in StatusCodes \ {200} :
            /\ ResolveGated(k, DownloadFail(url, HttpError(code)))
            /\ net' = Faulted(net, k)
            /\ UNCHANGED fs
       \/ \E e \in FsErrors :        \* os.makedirs or aiofiles.open raises
            /\ ResolveGated(k, download_file_except(url, e))
            /\ net' = Faulted(net, k)
            /\ UNCHANGED fs
       \/ /\ fs' = [fs EXCEPT ![FilePath(url)] = "partial"]   \* open(filepath, "wb")
          /\ tasks' = [tasks EXCEPT ![k].pc = "write"]
          /\ UNCHANGED <<sem, net, completed>>

\* The 200 branch of get_file_size: int(content_length) and
\* format_size(content_length); TypeError and ValueError reach the except clause.
ProbeResult(url, header) ==
    IF IsNone(header) THEN ProbeOk(url, None)
    ELSE IF Len(Val(header)) = 0
         THEN get_file_size_except(url,
                  "'>=' not supported between instances of 'str' and 'int'")
    ELSE IF IntParses(Val(header)) THEN ProbeOk(url, Some(IntOf(Val(header))))
    ELSE get_file_size_except(url, "invalid literal for int() with base 10")

\* get_file_size after "session.head(url, allow_redirects=True)" resolved.
get_file_size_response(k) ==
    LET url == tasks[k].url
    IN /\ \/ \E e \in NetErrors :
                /\ ResolveGated(k, get_file_size_except(url, e))
                /\ net' = Faulted(net, k)
          \/ \E code \in StatusCodes \ {200} :
                /\ ResolveGated(k, ProbeFail(url, HttpError(code)))
                /\ net' = Faulted(net, k)
          \/ \E h \in Headers :
                /\ ResolveGated(k, ProbeResult(url, h))
                /\ net' = IF ProbeResult(url, h).success THEN net ELSE Faulted(net, k)
       /\ UNCHANGED fs

TaskResponse(k) ==
    /\ pc = "gather"
    /\ tasks[k].pc = "request"
    /\ IF engine = "download" THEN download_file_response(k) ELSE get_file_size_response(k)
    /\ UNCHANGED <<engine, file_urls, batch_size, concurrency, pc, i, stats,
                   folded, pauses>>
    /\ UNCHANGED <<crawlVars, hostVars>>

\* "await f.write(await response.read())" and the return that follows.
TaskWrite(k) ==
    LET url == tasks[k].url
    IN /\ pc = "gather"
       /\ tasks[k].pc = "write"
       /\ \/ /\ fs' = [fs EXCEPT ![FilePath(url)] = "complete"]
             /\ net' = Wrote(net, k)
             /\ ResolveGated(k, DownloadOk(url, "downloaded"))
          \/ \E e \in NetErrors :      \* response.read() raises
                /\ ResolveGated(k, download_file_except(url, e))
                /\ net' = Faulted(net, k)
                /\ UNCHANGED fs
          \/ \E e \in FsErrors :       \* f.write raises
                /\ ResolveGated(k, download_file_except(url, e))
                /\ net' = Faulted(Wrote(net, k), k)
                /\ UNCHANGED fs
       /\ UNCHANGED <<engine, file_urls, batch_size, concurrency, pc, i, stats,
                      folded, pauses>>
       /\ UNCHANGED <<crawlVars, hostVars>>

\* gather returns; "for result in results" folds the batch; then the pause
\* before the next batch, or the end of the loop.
FoldBatch ==
    /\ pc = "gather"
    /\ BatchResolved(tasks) \/ GatherRaises(tasks)
    /\ IF GatherRaises(tasks)
       THEN /\ pc' = "error"
            /\ UNCHANGED <<stats, folded, pauses>>
       ELSE /\ LET batch_results == Gather(tasks, completed)
               IN /\ stats' = FoldResults(engine, stats, batch_results)
                  /\ folded' = folded \o batch_results
            /\ IF EnginePauseAfter(engine, i,
                       Len(EngineBatches(engine, file_urls, batch_size)))
               THEN pc' = "sleep" /\ pauses' = pauses + 1
               ELSE pc' = "done" /\ pauses' = pauses
    /\ tasks' = <<>>
    /\ UNCHANGED <<engine, file_urls, batch_size, concurrency, i, sem,
                   completed, fs, net>>
    /\ UNCHANGED <<crawlVars, hostVars>>

\* asyncio.sleep(1) returns; the next iteration creates the next batch's tasks.
EndPause ==
    /\ pc = "sleep"
    /\ LET batches == EngineBatches(engine, file_urls, batch_size)
       IN IF i + 1 < Len(batches)
          THEN /\ i' = i + 1
               /\ tasks' = CreateTasks(batches[i + 2])
               /\ completed' = <<>>
               /\ pc' = "gather"
          ELSE /\ pc' = "done"
               /\ UNCHANGED <<i, tasks, completed>>
    /\ UNCHANGED <<engine, file_urls, batch_size, concurrency, sem,
                   stats, folded, pauses, fs, net>>
    /\ UNCHANGED <<crawlVars, hostVars>>

\* KeyboardInterrupt while the engine coroutine awaits a batch or the pause:
\* asyncio.run cancels the coroutine and its tasks; what is already on disk
\* stays as it is.
Interrupt ==
    /\ pc \in {"gather", "sleep"}
    /\ pc' = "interrupted"
    /\ tasks' = <<>>
    /\ completed' = <<>>
    /\ UNCHANGED <<engine, file_urls, batch_size, concurrency, i, sem, stats,
                   folded, pauses, fs, net>>
    /\ UNCHANGED <<crawlVars, hostVars>>

\* download_phenocam_files / estimate_phenocam_sizes: "return stats" after
\* asyncio.run returned, "return None" in "except KeyboardInterrupt" and in
\* "except Exception".
WrapperReturn == IF pc = "done" THEN Some(stats) ELSE None

\* Exit code of main for the download and estimate commands: 130 from
\* "except KeyboardInterrupt", which only an interrupt of the crawl phase
\* reaches (the wrappers of the fetch phase return None instead), 1 for an
\* unknown site or an exception, 0 otherwise.
main_exit ==
    IF cpc = "interrupted" THEN 130
    ELSE IF cpc \in {"aborted", "raised"} THEN 1
    ELSE 0

Next ==
    \/ StartRun
    \/ \E k \in 1..Len(tasks) : TaskStart(k)
    \/ \E k \in 1..Len(tasks) : TaskAcquire(k)
    \/ \E k \in 1..Len(tasks) : TaskResponse(k)
    \/ \E k \in 1..Len(tasks) : TaskWrite(k)
    \/ FoldBatch
    \/ EndPause
    \/ Interrupt

Spec == Init /\ [][Next]_vars

\* A run started from the command line: --batch-size and --concurrency are
\* declared with type=int and are handed over unchecked, so zero and
\* negative values reach the engine.
CliInit ==
    /\ engine \in {"download", "probe"}
    /\ file_urls \in SeqsUpTo(Urls, MaxRefs)
    /\ batch_size \in -1..MaxBatch
    /\ concurrency \in -1..MaxConc
    /\ pc = "init"
    /\ i = 0
    /\ tasks = <<>>
    /\ sem = 0
    /\ completed = <<>>
    /\ stats = Stats0(engine, file_urls)
    /\ folded = <<>>
    /\ pauses = 0
    /\ fs = [p \in Paths |-> "absent"]
    /\ net = [k \in 1..Len(file_urls) |-> NoTraffic]
    /\ CrawlIdle
    /\ HostIdle

CliSpec == CliInit /\ [][Next]_vars

----------------------------------------------------------------------------
(* The date range generator on its own: get_date_range *)

MaxRange == 4

\* Start dates at the ends of February, April and December, in leap,
\* non-leap and century years.
RangeStarts ==
    { dt \in [y : {1900, 2000, 2023, 2024}, m : {2, 4, 12}, d : 26..31] :
        ValidDate(dt) }

DateInit ==
    /\ EngineIdle
    /\ HostIdle
    /\ variant \in {"daily_links", "size_estimate"}
    /\ site_code = ""
    /\ start_date \in RangeStarts
    /\ end_date \in { DateOf(Ordinal(start_date) + n) : n \in -1..MaxRange }
    /\ file_types = <<>>
    /\ date_list = <<>>
    /\ day = 0
    /\ results = None
    /\ cpc = "dates"
    /\ requested = <<>>

\* date_list = get_date_range(start_date, end_date)
DateApply ==
    /\ cpc = "dates"
    /\ date_list' = get_date_range(start_date, end_date)
    /\ cpc' = "dated"
    /\ UNCHANGED <<variant, site_code, start_date, end_date, file_types, day,
                   results, requested>>
    /\ UNCHANGED <<engineVars, hostVars>>

DateNext == DateApply

DateSpec == DateInit /\ [][DateNext]_vars

----------------------------------------------------------------------------
(* The concurrency planner: determine_optimal_concurrency *)

MaxCpu == 40
MaxMemGiB == 16

\* mem_gb = total / (1024 * 1024 * 1024), with total counted in MiB here.
MiBPerGiB == 1024

\* os.cpu_count() is None when the count cannot be determined.
CpuCounts == {None} \cup { Some(n) : n \in 1..MaxCpu }

\* psutil.virtual_memory().total; None when reading it raises.
MemTotals ==
    {None} \cup { Some(g * MiBPerGiB + off) :
                    g \in 1..MaxMemGiB, off \in {0, MiBPerGiB - 1} }
           \cup { Some(MiBPerGiB - 1) }

\* The planner without the cap.
determine_optimal_concurrency_uncapped(cpu, mem) ==
    IF IsNone(mem) THEN 8
    ELSE LET cpus == IF IsNone(cpu) THEN 4 ELSE Val(cpu)
         IN IF Val(mem) < 4 * MiBPerGiB THEN Max(2, cpus \div 2)
            ELSE IF Val(mem) < 8 * MiBPerGiB THEN Max(4, cpus)
            ELSE Max(8, cpus * 2)

\* determine_optimal_concurrency: "cpu_count = os.cpu_count() or 4", the
\* three memory tiers, "return min(32, concurrency)", and "except: return 8".
determine_optimal_concurrency(cpu, mem) ==
    IF IsNone(mem) THEN 8
    ELSE LET cpus == IF IsNone(cpu) THEN 4 ELSE Val(cpu)
             tiered == IF Val(mem) < 4 * MiBPerGiB THEN Max(2, cpus \div 2)
                       ELSE IF Val(mem) < 8 * MiBPerGiB THEN Max(4, cpus)
                       ELSE Max(8, cpus * 2)
         IN Min(32, tiered)

PlanInit ==
    /\ EngineIdle
    /\ CrawlIdle
    /\ cpu_count \in CpuCounts
    /\ mem_total \in MemTotals
    /\ planned = None
    /\ hpc = "plan"

\* "if concurrency is None: concurrency = determine_optimal_concurrency()"
Plan ==
    /\ hpc = "plan"
    /\ planned' = Some(determine_optimal_concurrency(cpu_count, mem_total))
    /\ hpc' = "planned"
    /\ UNCHANGED <<cpu_count, mem_total>>
    /\ UNCHANGED <<engineVars, crawlVars>>

PlanNext == Plan

PlanSpec == PlanInit /\ [][PlanNext]_vars

----------------------------------------------------------------------------
(* Properties of the fetch engines *)

NumRefs == Len(file_urls)
NumBatches == Len(Batches(file_urls, batch_size))
CeilDiv(n, b) == (n + b - 1) \div b

\* Batch number (0-based) of position p of file_urls.
BatchOf(p) == (p - 1) \div batch_size

\* Outcomes counted by the statistics so far.
Counted(st) ==
    IF engine = "download"
    THEN st.successful + st.already_existed + st.failed
    ELSE st.successful + st.failed

RECURSIVE Concat(_)
Concat(ss) == IF ss = <<>> THEN <<>> ELSE Head(ss) \o Concat(Tail(ss))

Running == pc \in {"gather", "sleep", "done"}

\* C1: one run yields exactly one outcome per input ref, in input order
\* (batch order, then order within the batch), whatever succeeded or failed
\* and whatever the order of completion; in the size-probe engine the
\* outcome list is stats['files'].
C1_OutcomesInInputOrder ==
    Running =>
        /\ Len(folded) <= NumRefs
        /\ \A p \in 1..Len(folded) : folded[p].url = file_urls[p]
        /\ pc = "done" => Len(folded) = NumRefs
        /\ engine = "probe" => stats.files = folded

\* C1 witness: a finished run of two distinct refs in one batch that
\* resolved out of order, the first with success and the second without.
C1_Witness ==
    /\ pc = "done"
    /\ Len(folded) = 2
    /\ file_urls[1] # file_urls[2]
    /\ completed = <<2, 1>>
    /\ folded[1].success /\ ~folded[2].success

\* C2: at most `concurrency` operations are inside the gated section at any
\* moment, for every batch size and interleaving.
C2_GateBound ==
    Running => Cardinality(Gated(tasks)) <= concurrency

\* C2 witness: a batch larger than the gate, the gate full, one task parked.
C2_Witness ==
    /\ Len(tasks) > concurrency
    /\ Cardinality(Gated(tasks)) = concurrency
    /\ \E k \in 1..Len(tasks) : tasks[k].pc = "acquire"

\* C3: while any operation of batch i exists, every earlier batch has
\* resolved and been folded into the statistics, and only refs of batch i
\* have operations.
C3_BatchesInSequence ==
    pc = "gather" =>
        /\ Len(folded) = i * batch_size
        /\ Counted(stats) = i * batch_size
        /\ \A k \in 1..Len(tasks) :
              /\ RefIndex(i, k) \in 1..NumRefs
              /\ tasks[k].url = file_urls[RefIndex(i, k)]
              /\ BatchOf(RefIndex(i, k)) = i

\* C3 witness: an operation of the second batch is in flight after the
\* first batch was folded.
C3_Witness ==
    /\ pc = "gather"
    /\ i = 1
    /\ Len(folded) = batch_size
    /\ Counted(stats) = batch_size
    /\ \E k \in 1..Len(tasks) : tasks[k].pc = "request"

\* C4: ceil(N/b) contiguous batches, all of size b except possibly the last,
\* whose concatenation is the input; one pause between consecutive batches
\* and none after the last (5 refs with b = 2: batches of 2, 2, 1).
C4_BatchesAndPauses ==
    Running =>
        LET bs == Batches(file_urls, batch_size)
        IN /\ Len(bs) = CeilDiv(NumRefs, batch_size)
           /\ \A j \in 1..Len(bs) :
                 /\ Len(bs[j]) \in 1..batch_size
                 /\ j < Len(bs) => Len(bs[j]) = batch_size
           /\ Concat(bs) = file_urls
           /\ pc = "gather" => pauses = i
           /\ pc = "sleep" => pauses = i + 1 /\ i + 1 < Len(bs)
           /\ pc = "done" => pauses = Max(0, Len(bs) - 1)
           /\ NumRefs = 0 => Len(bs) = 0 /\ pauses = 0
           /\ [j \in 1..3 |-> Len(Batches(<<1, 2, 3, 4, 5>>, 2)[j])] = <<2, 2, 1>>
           /\ Len(Batches(<<1, 2, 3, 4, 5>>, 2)) = 3

\* C4 witness: two batches, finished after exactly one pause.
C4_Witness ==
    /\ pc = "done"
    /\ NumRefs = 2
    /\ NumBatches = 2
    /\ pauses = 1

\* Positions p < q of one download run whose operations ran one after the
\* other (different batches) on the same target path.
SequentialPair(p, q) ==
    /\ p < q
    /\ BatchOf(p) < BatchOf(q)
    /\ ~IsNone(DownloadSubdir(file_urls[p]))
    /\ ~IsNone(DownloadSubdir(file_urls[q]))
    /\ FilePath(file_urls[p]) = FilePath(file_urls[q])

\* C5: when the download operation is run twice in sequence for one target
\* path and the first run reports 'downloaded', the two runs together send
\* one GET and make one write, and the second reports 'already exists' with
\* success, no request, no gate entry and no write.
C5_DownloadIdempotent ==
    engine = "download" =>
        \A p, q \in 1..Len(folded) :
            (SequentialPair(p, q) /\ folded[p].success /\ folded[p].status = "downloaded")
            => /\ folded[q].success
               /\ folded[q].status = "already exists"
               /\ net[q] = NoTraffic
               /\ net[p].requests = 1
               /\ net[p].writes = 1

\* C5 witness: a file downloaded by one batch is found by a later batch.
C5_Witness ==
    /\ engine = "download"
    /\ pc = "done"
    /\ \E p, q \in 1..Len(folded) :
          /\ SequentialPair(p, q)
          /\ folded[p].success /\ folded[p].status = "downloaded"
          /\ folded[q].success /\ folded[q].status = "already exists"

\* C6: no operation raises past its boundary: an operation that met a
\* network error, a filesystem error, a non-200 response or a timeout
\* resolves with success = false and an error message, the run is never
\* ended by it, and all remaining operations still get their outcome.
C6_FailuresCaptured ==
    /\ pc # "error"
    /\ \A k \in 1..Len(tasks) :
          tasks[k].pc = "done" =>
              LET r == Val(tasks[k].result)
              IN /\ "success" \in DOMAIN r
                 /\ net[RefIndex(i, k)].faults > 0 =>
                        ~r.success /\ "error" \in DOMAIN r
    /\ \A p \in 1..Len(folded) :
          net[p].faults > 0 => ~folded[p].success /\ "error" \in DOMAIN folded[p]
    /\ pc = "done" => Len(folded) = NumRefs

\* C6 witness: a timed-out operation in the first batch, and an operation of
\* the next batch that sent its request and succeeded.
C6_Witness ==
    /\ pc = "done"
    /\ NumBatches = 2
    /\ Len(folded) = 2
    /\ net[1].faults > 0 /\ ~folded[1].success /\ folded[1].error = ""
    /\ folded[2].success
    /\ net[2].requests = 1

\* C7: the size probe sends no request and never enters the gate for a
\* metadata ref, and reports success with the size 0 for it.
C7_ProbeSkipsMetadata ==
    engine = "probe" =>
        /\ \A p \in 1..NumRefs :
              ProbeFileType(file_urls[p]) = "meta" => net[p] = NoTraffic
        /\ \A k \in 1..Len(tasks) :
              ProbeFileType(tasks[k].url) = "meta" =>
                  tasks[k].pc \in {"created", "done"}
        /\ \A p \in 1..Len(folded) :
              ProbeFileType(file_urls[p]) = "meta" =>
                  /\ folded[p].success
                  /\ ~IsNone(folded[p].size)
                  /\ Val(folded[p].size) = 0

\* C7 witness: a probe run that folded a metadata ref next to a ref that
\* did go through the gate.
C7_Witness ==
    /\ engine = "probe"
    /\ pc = "done"
    /\ \E p, q \in 1..Len(folded) :
          /\ ProbeFileType(file_urls[p]) = "meta"
          /\ folded[p].size = Some(0)
          /\ net[q].requests = 1

\* C8: a 200 response without a declared content length gives success = true
\* with size null, and the aggregator counts it as successful: not in
\* 'failed', not in the error list, nothing added to a byte total.
C8_NullSizeCountsAsSuccess ==
    (engine = "probe" /\ Running) =>
        LET files == stats.files
            nullOk == { p \in 1..Len(files) : files[p].success /\ IsNone(files[p].size) }
            failedOnes == { p \in 1..Len(files) : ~files[p].success }
        IN /\ stats.failed = Cardinality(failedOnes)
           /\ Len(stats.errors) = Cardinality(failedOnes)
           /\ \A e \in 1..Len(stats.errors) : ~stats.errors[e].success
           /\ stats.successful = Len(files) - Cardinality(failedOnes)

----------------------------------------------------------------------------
(* Properties of the crawler *)

Crawling == cpc \in {"loop", "waiting", "returned"}

\* Date strings of the inclusive range, counted on the calendar.
RangeKeys ==
    { strftime(DateOf(n)) : n \in Ordinal(start_date)..Ordinal(end_date) }

IsErrorRecord(e) == DOMAIN e = {"error"}
IsDayCatalog(e) == "images" \in DOMAIN e /\ "error" \notin DOMAIN e

\* C9: for start <= end, total_days is the number of calendar days of the
\* inclusive range and, when the crawl returns, data_by_date has exactly one
\* entry, a DayCatalog or an ErrorRecord, for every date of the range.
C9_TotalDaysAndEntries ==
    (Crawling /\ DateLE(start_date, end_date)) =>
        /\ results.summary.total_days = Ordinal(end_date) - Ordinal(start_date) + 1
        /\ DOMAIN results.data_by_date \subseteq RangeKeys
        /\ Cardinality(DOMAIN results.data_by_date) = day
        /\ \A ds \in DOMAIN results.data_by_date :
              IsErrorRecord(results.data_by_date[ds])
                  # IsDayCatalog(results.data_by_date[ds])
        /\ cpc = "returned" =>
              /\ DOMAIN results.data_by_date = RangeKeys
              /\ Cardinality(RangeKeys) = results.summary.total_days

\* C9 witness: a two-day crawl across a month end returned with a failed
\* day next to a day with data.
C9_Witness ==
    /\ cpc = "returned"
    /\ results.summary.total_days = 2
    /\ start_date.m # end_date.m
    /\ \E a, b \in DOMAIN results.data_by_date :
          /\ IsErrorRecord(results.data_by_date[a])
          /\ IsDayCatalog(results.data_by_date[b])

FailedOutcomes == {"exception", "status", "parse_error"}

\* C10: a day that fails (non-200, exception of the request, exception of
\* the parser) is recorded as an ErrorRecord and does not abort the crawl:
\* the later dates are still requested in order and the crawl returns.
C10_DayFailureDoesNotAbort ==
    (cpc \notin {"lookup", "aborted", "call", "interrupted"}
        /\ ~InvalidFileTypes(file_types)) =>
        /\ cpc \in {"loop", "waiting", "returned"}
        /\ Len(requested) = day
        /\ \A n \in 1..Len(requested) :
              /\ requested[n].date = date_list[n]
              /\ requested[n].outcome \in FailedOutcomes =>
                    /\ requested[n].date \in DOMAIN results.data_by_date
                    /\ IsErrorRecord(results.data_by_date[requested[n].date])
        /\ cpc = "returned" => Len(requested) = Len(date_list)
        /\ cpc \in {"loop", "waiting"} => day < Len(date_list)

\* C10 witness: a returned crawl whose first day raised and whose second
\* day has data.
C10_Witness ==
    /\ cpc = "returned"
    /\ Len(requested) = 2
    /\ requested[1].outcome \in {"exception", "parse_error"}
    /\ IsErrorRecord(results.data_by_date[requested[1].date])
    /\ requested[2].outcome = "ok"
    /\ IsDayCatalog(results.data_by_date[requested[2].date])

Outcomes == [n \in 1..Len(requested) |-> requested[n].outcome]

OkDays == { n \in 1..Len(requested) : requested[n].outcome = "ok" }

StoredAs(n) == results.data_by_date[requested[n].date]

EntryLinks(ft, entry) ==
    LET jpgs == SelectSeq(entry.anchors, LAMBDA h : h.ext = "jpg")
        metas == SelectSeq(entry.anchors, LAMBDA h : h.ext = "meta")
    IN (IF InList("image", ft) /\ Len(jpgs) > 0 THEN <<jpgs[1]>> ELSE <<>>)
       \o (IF InList("thumbnail", ft) /\ ~IsNone(entry.img)
           THEN <<Val(entry.img)>> ELSE <<>>)
       \o (IF InList("meta", ft) /\ Len(metas) > 0 THEN <<metas[1]>> ELSE <<>>)

RECURSIVE PageLinks(_, _)
PageLinks(ft, entries) ==
    IF entries = <<>> THEN <<>>
    ELSE EntryLinks(ft, Head(entries)) \o PageLinks(ft, Tail(entries))

\* Links of the days with data among the first n requests.
RECURSIVE LinksUpTo(_)
LinksUpTo(n) ==
    IF n = 0 THEN <<>>
    ELSE LinksUpTo(n - 1)
            \o (IF requested[n].outcome = "ok"
                THEN PageLinks(file_types, requested[n].entries) ELSE <<>>)

\* C12: file_urls holds exactly one URL for each link that is present in
\* the markup of an image entry of a day with data and whose kind is
\* requested, and the per-kind counters count exactly these URLs.
C12_OneUrlPerPresentLink ==
    Crawling =>
        /\ results.summary.file_urls = LinksUpTo(Len(requested))
        /\ results.summary.total_images + results.summary.total_thumbnails
              + results.summary.total_metadata_files
                 = Len(LinksUpTo(Len(requested)))

\* URLs of one stored image, in the order image, thumbnail, metadata.
CatalogUrls(img) ==
    (IF "image_url" \in DOMAIN img THEN <<img.image_url>> ELSE <<>>)
       \o (IF "thumbnail_url" \in DOMAIN img THEN <<img.thumbnail_url>> ELSE <<>>)
       \o (IF "metadata_url" \in DOMAIN img THEN <<img.metadata_url>> ELSE <<>>)

RECURSIVE ImagesUrls(_)
ImagesUrls(imgs) ==
    IF imgs = <<>> THEN <<>> ELSE CatalogUrls(Head(imgs)) \o ImagesUrls(Tail(imgs))

\* URLs of the catalogs stored for the first n dates of date_list.
RECURSIVE StoredUrlsUpTo(_)
StoredUrlsUpTo(n) ==
    IF n = 0 THEN <<>>
    ELSE StoredUrlsUpTo(n - 1)
            \o (LET e == results.data_by_date[date_list[n]]
                IN IF IsDayCatalog(e) THEN ImagesUrls(e.images) ELSE <<>>)

IsPrefix(s, t) == Len(s) <= Len(t) /\ SubSeq(t, 1, Len(s)) = s

\* file_urls lists the stored catalogs day by day in calendar order, the
\* images of a day in page order, the links of an image in the order image,
\* thumbnail, metadata.
UrlsInOrder ==
    Crawling =>
        /\ results.summary.file_urls = StoredUrlsUpTo(day)
        /\ \A n \in 1..day :
              /\ date_list[n] = strftime(DateOf(Ordinal(start_date) + n - 1))
              /\ LET e == results.data_by_date[date_list[n]]
                 IN IsDayCatalog(e) =>
                      \A k \in 1..Len(e.images) : \A f \in DOMAIN e.images[k] :
                          \/ e.images[k][f] = NoneUrl
                          \/ e.images[k][f].base = Append(date_list[n], k)

\* A step of the crawl only appends to file_urls.
UrlsAppendOnly ==
    (Crawling /\ Crawling') =>
        IsPrefix(results.summary.file_urls, results'.summary.file_urls)

C14_DateRangeInclusive ==
    (cpc = "dated" /\ DateLE(start_date, end_date)) =>
        LET n == Ordinal(end_date) - Ordinal(start_date) + 1
        IN /\ Len(date_list) = n
           /\ date_list[1] = strftime(start_date)
           /\ date_list[n] = strftime(end_date)
           /\ \A k \in 1..n :
                 date_list[k] = strftime(DateOf(Ordinal(start_date) + k - 1))
           /\ start_date = end_date => Len(date_list) = 1

\* C14 witness: a range of three dates over the leap day.
C14_Witness ==
    /\ cpc = "dated"
    /\ start_date = [y |-> 2024, m |-> 2, d |-> 28]
    /\ date_list = << strftime([y |-> 2024, m |-> 2, d |-> 28]),
                      strftime([y |-> 2024, m |-> 2, d |-> 29]),
                      strftime([y |-> 2024, m |-> 3, d |-> 1]) >>

\* C15: a crawl called with start > end fails instead of returning a result.
C15_InvalidRangeRejected ==
    ~DateLE(start_date, end_date) => IsNone(CrawlReturn)

\* C16: a crawl called with a file type outside image, thumbnail, meta
\* raises before any page request and hands no result to its caller.
C16_InvalidFileTypeRejected ==
    (\E k \in 1..Len(file_types) : file_types[k] \notin {"image", "thumbnail", "meta"}) =>
        /\ requested = <<>>
        /\ results = None
        /\ IsNone(CrawlReturn)
        /\ cpc \in {"lookup", "aborted", "call", "raised"}

\* C16 witness: the call raised for a list whose second element is invalid.
C16_Witness ==
    /\ cpc = "raised"
    /\ file_types = <<"image", "video">>
    /\ requested = <<>>

\* C17: no catalog page is requested for a crawl called with an empty
\* file type list.
C17_EmptyFilterRejected ==
    file_types = <<>> => requested = <<>>

\* The tiering of the planner as the contract states it, in GiB.
PlanTier(cpus, mib) ==
    IF mib < 4 * 1024 THEN (IF cpus \div 2 > 2 THEN cpus \div 2 ELSE 2)
    ELSE IF mib < 8 * 1024 THEN (IF cpus > 4 THEN cpus ELSE 4)
    ELSE (IF cpus * 2 > 8 THEN cpus * 2 ELSE 8)

C19_InterruptReturnsPartial ==
    (pc = "interrupted" /\ Len(folded) > 0) => WrapperReturn = Some(stats)

\* C20: when no site of the registry has the given site code, the operation
\* ends at the lookup: no catalog page is requested, no crawl result exists,
\* no file request is sent.
C20_UnknownSiteNoTraffic ==
    (cpc # "idle" /\ \A k \in 1..Len(site_all) : site_all[k].siteCode # site_code) =>
        /\ cpc \in {"lookup", "aborted"}
        /\ requested = <<>>
        /\ results = None
        /\ net = <<>>
        /\ pc = "idle"

\* C20 witness: the operation aborted for a code the registry does not have.
C20_Witness ==
    /\ cpc = "aborted"
    /\ site_code = "ZZZZ"
    /\ requested = <<>>

\* A step of the run itself: of the engine coroutine or of one of its tasks.
RunStep ==
    \/ StartRun
    \/ \E k \in 1..Len(tasks) : TaskStart(k)
    \/ \E k \in 1..Len(tasks) : TaskAcquire(k)
    \/ \E k \in 1..Len(tasks) : TaskResponse(k)
    \/ \E k \in 1..Len(tasks) : TaskWrite(k)
    \/ FoldBatch
    \/ EndPause

\* C21: for every integer batch size and concurrency, a run that is not
\* interrupted always has a next step until it has completed, and it
\* completes with a result object: it is never stuck waiting on the gate and
\* never ends without statistics.
C21_RunCompletes ==
    /\ pc \in {"init", "gather", "sleep"} => ENABLED RunStep
    /\ pc \notin {"init", "gather", "sleep", "interrupted"} =>
          ~IsNone(WrapperReturn)

\* C22: every URL the crawler puts into file_urls is classified by both
\* fetch operations: download_file derives a subdirectory for it and
\* get_file_size gives it a kind other than "unknown".
C22_ClassificationTotal ==
    Crawling =>
        \A n \in 1..Len(results.summary.file_urls) :
            /\ ~IsNone(DownloadSubdir(results.summary.file_urls[n]))
            /\ ProbeFileType(results.summary.file_urls[n]) # "unknown"

\* The refs of batch number j (0-based) of the reference schedule.
ScheduleBatch(j) ==
    SubSeq(file_urls, j * batch_size + 1,
           IF (j + 1) * batch_size < NumRefs THEN (j + 1) * batch_size ELSE NumRefs)

\* C23: both engines follow one schedule, a function of the ref list, the
\* batch size and the concurrency alone: the operations of batch i are those
\* of the i-th slice in list order, the gate holds concurrency permits, the
\* batch is folded whole, and there is one pause after every batch but the
\* last, whichever engine runs.
C23_SameScheduler ==
    Running =>
        /\ pc = "gather" =>
              /\ [k \in 1..Len(tasks) |-> tasks[k].url] = ScheduleBatch(i)
              /\ Len(folded) = i * batch_size
              /\ pauses = i
        /\ sem + Cardinality(Gated(tasks)) = concurrency
        /\ pc = "sleep" =>
              /\ Len(folded) = (i + 1) * batch_size
              /\ (i + 1) * batch_size < NumRefs
              /\ pauses = i + 1
        /\ pc = "done" =>
              /\ Len(folded) = NumRefs
              /\ pauses = (IF NumRefs = 0 THEN 0 ELSE CeilDiv(NumRefs, batch_size) - 1)

\* C23 witness: the size-probe engine in its second batch, after one pause,
\* with an operation inside the gate.
C23_Witness ==
    /\ engine = "probe"
    /\ pc = "gather"
    /\ i = 1
    /\ pauses = 1
    /\ Len(folded) = batch_size
    /\ Cardinality(Gated(tasks)) = 1
    /\ sem = concurrency - 1

\* Page requests sent so far: those that came back and the one under way.
RequestsSent == Len(requested) + (IF cpc = "waiting" THEN 1 ELSE 0)

RequestsOutstanding == RequestsSent - Len(requested)

\* C24: page requests go out one at a time in calendar order: the n-th
\* request is for the n-th day of the range, at most one is outstanding,
\* while it is outstanding exactly the earlier days are recorded, and a crawl
\* that returns has made exactly one request per day.
C24_OneRequestAtATime ==
    Crawling =>
        /\ RequestsOutstanding \in {0, 1}
        /\ \A n \in 1..Len(requested) :
              requested[n].date = strftime(DateOf(Ordinal(start_date) + n - 1))
        /\ DOMAIN results.data_by_date = { requested[n].date : n \in 1..Len(requested) }
        /\ \A n \in 1..Len(requested) :
              IsDayCatalog(StoredAs(n)) \/ IsErrorRecord(StoredAs(n))
        /\ cpc = "waiting" =>
              /\ RequestsSent = day + 1
              /\ strftime(DateOf(Ordinal(start_date) + day)) \notin DOMAIN results.data_by_date
        /\ cpc = "returned" =>
              /\ RequestsSent = Cardinality(RangeKeys)
              /\ Cardinality({ requested[n].date : n \in 1..Len(requested) }) = RequestsSent

\* C24 witness: the request for the second day is outstanding and the first
\* day is recorded.
C24_Witness ==
    /\ cpc = "waiting"
    /\ day = 1
    /\ Len(requested) = 1
    /\ DOMAIN results.data_by_date = { date_list[1] }

\* Refs of the batches that have been folded, by the position of the loop.
RefsOfFoldedBatches ==
    LET nfolded == IF pc = "gather" THEN i
                   ELSE IF NumRefs = 0 THEN 0 ELSE i + 1
    IN IF nfolded * batch_size < NumRefs THEN nfolded * batch_size ELSE NumRefs

\* C25: after every fold the counters partition the outcomes of the batches
\* completed so far, errors has one element per failure, and at the end of
\* the run the counters add up to the total fixed before the first batch.
C25_CountersPartition ==
    Running =>
        /\ engine = "download" =>
              /\ stats.successful + stats.already_existed + stats.failed
                    = RefsOfFoldedBatches
              /\ Len(stats.errors) = stats.failed
              /\ pc = "done" =>
                    stats.successful + stats.already_existed + stats.failed
                       = stats.total
              /\ stats.total = NumRefs
        /\ engine = "probe" =>
              /\ stats.successful + stats.failed = Len(stats.files)
              /\ Len(stats.files) = RefsOfFoldedBatches
              /\ Len(stats.errors) = stats.failed
              /\ pc = "done" => stats.successful + stats.failed = stats.total.count
              /\ stats.total.count = NumRefs

\* C25 witness: a finished download run of two batches with a file that was
\* downloaded and one that was found on disk.
C25_Witness ==
    /\ engine = "download"
    /\ pc = "done"
    /\ stats.total = 2
    /\ stats.successful = 1
    /\ stats.already_existed = 1
    /\ stats.failed = 0

SummaryCount(res) ==
    res.summary.total_images + res.summary.total_thumbnails
       + res.summary.total_metadata_files

\* Every URL of file_urls is counted by one per-kind counter.
UrlsCounted == Crawling => Len(results.summary.file_urls) = SummaryCount(results)

\* A day recorded as an ErrorRecord leaves the list and the counters alone.
ErrorDayKeepsSummary ==
    (cpc = "waiting" /\ cpc' \in {"loop", "returned"}
        /\ IsErrorRecord(results'.data_by_date[date_list[day + 1]])) =>
        results'.summary = results.summary

\* C26: at every point of a crawl len(file_urls) is the sum of the three
\* per-kind counters, and a day recorded as an ErrorRecord changes neither
\* the list nor the counters.
C26_UrlsMatchCounters == []UrlsCounted /\ [][ErrorDayKeepsSummary]_vars

\* C26 witness: a returned crawl with an error day after a day that
\* contributed three URLs, one of each kind.
C26_Witness ==
    /\ cpc = "returned"
    /\ Outcomes = <<"ok", "status">>
    /\ Len(results.summary.file_urls) = 3
    /\ results.summary.total_images = 1
    /\ results.summary.total_thumbnails = 1
    /\ results.summary.total_metadata_files = 1

Classified(p) == ~IsNone(DownloadSubdir(file_urls[p]))

SamePath(p, q) ==
    Classified(p) /\ Classified(q) /\ FilePath(file_urls[p]) = FilePath(file_urls[q])

\* C27: in a download run, two operations of one batch with the same target
\* path never both send a GET and write the file.
C27_NoDuplicateDownload ==
    (engine = "download" /\ Running) =>
        \A p, q \in 1..NumRefs :
            (p < q /\ BatchOf(p) = BatchOf(q) /\ SamePath(p, q)) =>
                ~(/\ net[p].requests > 0 /\ net[p].writes > 0
                  /\ net[q].requests > 0 /\ net[q].writes > 0)

\* C28: in a finished download run, the target path of an operation that
\* ended with success = false, and that no other ref of the run shares, has
\* no file.
C28_FailureLeavesNoFile ==
    (engine = "download" /\ pc = "done") =>
        \A p \in 1..Len(folded) :
            (/\ ~folded[p].success
             /\ Classified(p)
             /\ \A q \in 1..NumRefs : q # p => ~SamePath(p, q)) =>
                fs[FilePath(file_urls[p])] = "absent"

\* C29: main returns 130 for a command that the user interrupted, in the
\* crawl phase or in the fetch phase.
C29_InterruptExits130 ==
    (pc = "interrupted" \/ cpc = "interrupted") => main_exit = 130

\* C30: the free permits stay in 0..concurrency and are concurrency minus
\* the operations inside the gate; all permits are free when a batch starts,
\* when it has been folded and at the end of the run, and every ref of a
\* finished run has its outcome, whatever failed before it.
C30_GateNeverLeaks ==
    Running =>
        /\ sem \in 0..concurrency
        /\ sem = concurrency - Cardinality(Gated(tasks))
        /\ (pc = "gather" /\ \A k \in 1..Len(tasks) : tasks[k].pc = "created") =>
              sem = concurrency
        /\ pc \in {"sleep", "done"} => sem = concurrency
        /\ pc = "done" => Len(folded) = NumRefs

\* C30 witness: with one permit, an operation failed inside the gate in the
\* first batch and the operation of the second batch went through the gate.
C30_Witness ==
    /\ pc = "done"
    /\ concurrency = 1
    /\ NumBatches = 2
    /\ net[1].gate = 1 /\ ~folded[1].success
    /\ net[2].gate = 1 /\ folded[2].success
    /\ sem = 1

====
